---- MODULE Spec2Model ----
(***************************************************************************)
(* Model of util/equality/equality.go of the contour operator: the five    *)
(* change-detection functions DaemonsetConfigChanged, JobConfigChanged,    *)
(* DeploymentConfigChanged, ClusterIpServiceChanged and                    *)
(* LoadBalancerServiceChanged.                                             *)
(*                                                                         *)
(* Go passes the snapshots by pointer and a slice shares its backing       *)
(* array with every copy of its header, so the functions are modelled on   *)
(* a small heap: mem.obj maps an address to a struct, mem.arr maps an      *)
(* address to the backing array of a Spec.Ports slice, and the Ports field *)
(* of a Service struct holds the address of its backing array.  Maps are   *)
(* values with a nil flag (they are only ever assigned, never written in   *)
(* place); a pointer to an integer is the set of its pointees ({} is nil). *)
(***************************************************************************)
EXTENDS Integers, Sequences, FiniteSets, TLC

VARIABLES kind, mem, args, pc, ret, applied

vars == <<kind, mem, args, pc, ret, applied>>

\* Longest Spec.Ports list of an input snapshot.
MaxPorts == 2

Kinds == {"DaemonSet", "Job", "Deployment", "ClusterIP", "LoadBalancer"}

\* The nil *T a function returns for "no update".
NilPtr == "nil"

\* operatorv1alpha1.OwningContourLabel, the label key JobConfigChanged looks up.
OwningContourLabel == "contour.operator.projectcontour.io/owning-contour"

---------------------------------------------------------------------------
(* Values *)

\* A Go map[string]string: nil, or a set of <<key, value>> entries.
NilMap == [isNil |-> TRUE, kv |-> {}]
Map(entries) == [isNil |-> FALSE, kv |-> entries]
Keys(m) == {e[1] : e \in m.kv}

\* apiequality.Semantic.DeepEqual on two maps: a nil map and an empty map are
\* equal, otherwise the entries decide.
SemanticDeepEqualMap(a, b) == a.kv = b.kv

\* apiequality.Semantic.DeepEqual on scalars, on *int32 (nil or the pointee)
\* and on []ServicePort (element-wise, every field of the port).
SemanticDeepEqual(a, b) == a = b

---------------------------------------------------------------------------
(* Input snapshots *)

\* r, and r with one field given another value of its domain.
Near(r, dom) ==
    {r} \cup UNION {{[r EXCEPT ![f] = v] : v \in dom[f]} : f \in DOMAIN r}

LabelMaps ==
    {NilMap, Map({}), Map({<<"app", "contour">>}), Map({<<"app", "envoy">>})}

AnnotationMaps == {Map({}), Map({<<"note", "x">>})}

\* appsv1.DaemonSet / appsv1.Deployment: metadata, spec, status.
WorkloadBase ==
    [labels |-> Map({<<"app", "contour">>}), annotations |-> Map({}),
     spec |-> "spec-a", status |-> "status-a"]
WorkloadDom ==
    [labels |-> LabelMaps, annotations |-> AnnotationMaps,
     spec |-> {"spec-a", "spec-b"}, status |-> {"status-a", "status-b"}]

\* batchv1.Job: metadata, Spec.Parallelism, Spec.BackoffLimit, Spec.Completions,
\* Spec.Template.Labels, Spec.Template.Spec.
JobBase ==
    [labels |-> Map({<<"app", "contour">>}), annotations |-> Map({}),
     parallelism |-> {1}, backoffLimit |-> {1}, completions |-> {1},
     templateLabels |-> Map({<<OwningContourLabel, "c">>}),
     templateSpec |-> "pod-a"]
JobDom ==
    [labels |-> LabelMaps, annotations |-> AnnotationMaps,
     parallelism |-> {{}, {1}, {2}}, backoffLimit |-> {{}, {1}, {2}},
     completions |-> {{}, {1}, {2}},
     templateLabels |->
        {NilMap, Map({}), Map({<<OwningContourLabel, "c">>}),
         Map({<<"job-name", "j">>}),
         Map({<<OwningContourLabel, "c">>, <<"job-name", "j">>})},
     templateSpec |-> {"pod-a", "pod-b"}]

\* corev1.ServicePort.
PortBase ==
    [name |-> "http", protocol |-> "TCP", port |-> 80, targetPort |-> 8080,
     nodePort |-> 0]
PortDom ==
    [name |-> {"http", "https"}, protocol |-> {"TCP", "UDP"},
     port |-> {80, 443}, targetPort |-> {8080, 8443}, nodePort |-> {0, 30080}]
PortVals == Near(PortBase, PortDom)

\* Port lists of up to MaxPorts ports, at most one of them off the base port.
PortLists ==
    UNION {{[i \in 1..n |-> PortBase]} \cup
           {[i \in 1..n |-> IF i = j THEN p ELSE PortBase]
               : j \in 1..n, p \in PortVals}
             : n \in 0..MaxPorts}

\* corev1.Service: metadata and the Spec fields the two functions touch or skip.
ServiceBase(t) ==
    [annotations |-> Map({}), ports |-> <<PortBase>>,
     selector |-> Map({<<"app", "envoy">>}), sessionAffinity |-> "None",
     type |-> t, externalTrafficPolicy |-> "Local", clusterIP |-> "",
     healthCheckNodePort |-> 0]
ServiceDom ==
    [annotations |-> AnnotationMaps, ports |-> PortLists,
     selector |-> {NilMap, Map({}), Map({<<"app", "envoy">>}),
                   Map({<<"app", "contour">>})},
     sessionAffinity |-> {"None", "ClientIP"},
     type |-> {"ClusterIP", "LoadBalancer", "NodePort"},
     externalTrafficPolicy |-> {"Local", "Cluster"},
     clusterIP |-> {"", "10.0.0.1"},
     healthCheckNodePort |-> {0, 30090}]

Base(k) ==
    CASE k \in {"DaemonSet", "Deployment"} -> WorkloadBase
      [] k = "Job" -> JobBase
      [] k = "ClusterIP" -> ServiceBase("ClusterIP")
      [] k = "LoadBalancer" -> ServiceBase("LoadBalancer")

Dom(k) ==
    CASE k \in {"DaemonSet", "Deployment"} -> WorkloadDom
      [] k = "Job" -> JobDom
      [] k \in {"ClusterIP", "LoadBalancer"} -> ServiceDom

\* The snapshots a caller observes (the base snapshot with up to two fields
\* changed), and those it may ask for: the desired state, or the observed one,
\* with one field changed.
Currents(k) == UNION {Near(c, Dom(k)) : c \in Near(Base(k), Dom(k))}
Expecteds(k, c) == Near(Base(k), Dom(k)) \cup Near(c, Dom(k))

---------------------------------------------------------------------------
(* The heap *)

IsService(s) == "ports" \in DOMAIN s

\* The two snapshots as the caller holds them: one struct each, and for a
\* Service one backing array each.
Alloc(a) ==
    IF IsService(a.current)
    THEN [obj |-> [current |-> [a.current EXCEPT !.ports = "current"],
                   expected |-> [a.expected EXCEPT !.ports = "expected"]],
          arr |-> [current |-> a.current.ports, expected |-> a.expected.ports]]
    ELSE [obj |-> [current |-> a.current, expected |-> a.expected],
          arr |-> [current |-> <<>>, expected |-> <<>>]]

\* The snapshot at an address, its port list read through the slice.
View(m, p) ==
    IF IsService(m.obj[p])
    THEN [m.obj[p] EXCEPT !.ports = m.arr[m.obj[p].ports]]
    ELSE m.obj[p]

---------------------------------------------------------------------------
(* The functions.  Each threads a frame: the heap (obj, arr), the local      *)
(* pointer `updated` and the local flag `changed`.                           *)

\* changed := false; updated := current.DeepCopy() for a DaemonSet, a Job or a
\* Deployment: a fresh struct at address "copy".
DeepCopyObject(m) ==
    [obj |-> [a \in DOMAIN m.obj \cup {"copy"} |->
                 IF a = "copy" THEN m.obj["current"] ELSE m.obj[a]],
     arr |-> m.arr, updated |-> "copy", changed |-> FALSE]

\* A DeepCopy that forgets the backing array: the copy's Ports slice still
\* points into current's array.
ShallowCopyService(m) ==
    [obj |-> [a \in DOMAIN m.obj \cup {"copy"} |->
                 IF a = "copy" THEN m.obj["current"] ELSE m.obj[a]],
     arr |-> m.arr, updated |-> "copy", changed |-> FALSE]

\* changed := false; updated := current.DeepCopy() for a Service: a fresh
\* struct and a fresh backing array for its Ports.
DeepCopyService(m) ==
    [obj |-> [a \in DOMAIN m.obj \cup {"copy"} |->
                 IF a = "copy" THEN [m.obj["current"] EXCEPT !.ports = "copy"]
                 ELSE m.obj[a]],
     arr |-> [a \in DOMAIN m.arr \cup {"copy"} |->
                 IF a = "copy" THEN m.arr[m.obj["current"].ports]
                 ELSE m.arr[a]],
     updated |-> "copy", changed |-> FALSE]

\* updated = expected; changed = true
ReplaceByExpected(f) == [f EXCEPT !.updated = "expected", !.changed = TRUE]

\* updated.<field> = expected.<field>; changed = true.  Assigning a slice copies
\* its header, so a Ports assignment makes updated share expected's array.
AssignField(f, field) ==
    [f EXCEPT !.obj[f.updated][field] = f.obj["expected"][field],
              !.changed = TRUE]

\* A return that hands the copy back whether or not anything changed.
ReturnAlways(f) ==
    [mem |-> [obj |-> f.obj, arr |-> f.arr],
     ret |-> [updated |-> f.updated, changed |-> f.changed]]

\* if !changed { return nil, false }; return updated, true
Return(f) ==
    [mem |-> [obj |-> f.obj, arr |-> f.arr],
     ret |-> IF ~f.changed
             THEN [updated |-> NilPtr, changed |-> FALSE]
             ELSE [updated |-> f.updated, changed |-> TRUE]]

\* DeploymentConfigChanged(current, expected)
DeploymentConfigChanged(m) ==
    LET f0 == DeepCopyObject(m)
        f1 == IF ~SemanticDeepEqualMap(f0.obj["current"].labels,
                                       f0.obj["expected"].labels)
              THEN ReplaceByExpected(f0) ELSE f0
        f2 == IF ~SemanticDeepEqual(f1.obj["current"].spec,
                                    f1.obj["expected"].spec)
              THEN ReplaceByExpected(f1) ELSE f1
    IN  Return(f2)

\* A DaemonsetConfigChanged written like DeploymentConfigChanged.
DaemonsetReplaceWholesale(m) == DeploymentConfigChanged(m)

\* DaemonsetConfigChanged(current, expected)
DaemonsetConfigChanged(m) ==
    LET f0 == DeepCopyObject(m)
        f1 == IF ~SemanticDeepEqualMap(f0.obj["current"].labels,
                                       f0.obj["expected"].labels)
              THEN AssignField(f0, "labels") ELSE f0
        f2 == IF ~SemanticDeepEqual(f1.obj["current"].spec,
                                    f1.obj["expected"].spec)
              THEN AssignField(f1, "spec") ELSE f1
    IN  Return(f2)

\* The lookup with its result read the wrong way round.
HasOwningLabel(labels) ==
    /\ ~labels.isNil
    /\ OwningContourLabel \in Keys(labels)

\* The lookup without the nil guard around it.
MissingOwningLabelNoNilGuard(labels) == OwningContourLabel \notin Keys(labels)

\* if labels != nil { if _, ok := labels[OwningContourLabel]; !ok { ... } }
MissingOwningLabel(labels) ==
    /\ ~labels.isNil
    /\ OwningContourLabel \notin Keys(labels)

\* JobConfigChanged(current, expected)
JobConfigChanged(m) ==
    LET f0 == DeepCopyObject(m)
        f1 == IF ~SemanticDeepEqualMap(f0.obj["current"].labels,
                                       f0.obj["expected"].labels)
              THEN ReplaceByExpected(f0) ELSE f0
        f2 == IF ~SemanticDeepEqual(f1.obj["current"].parallelism,
                                    f1.obj["expected"].parallelism)
              THEN ReplaceByExpected(f1) ELSE f1
        f3 == IF ~SemanticDeepEqual(f2.obj["current"].backoffLimit,
                                    f2.obj["expected"].backoffLimit)
              THEN ReplaceByExpected(f2) ELSE f2
        f4 == IF MissingOwningLabel(f3.obj["current"].templateLabels)
              THEN ReplaceByExpected(f3) ELSE f3
        f5 == IF ~SemanticDeepEqual(f4.obj["current"].templateSpec,
                                    f4.obj["expected"].templateSpec)
              THEN ReplaceByExpected(f4) ELSE f4
    IN  Return(f5)

\* a.Spec.Ports read through the slice header of the struct at address a.
Ports(f, a) == f.arr[f.obj[a].ports]

\* ClusterIpServiceChanged(current, expected)
ClusterIpServiceChanged(m) ==
    LET f0 == DeepCopyService(m)
        f1 == IF Len(Ports(f0, "current")) # Len(Ports(f0, "expected"))
              THEN AssignField(f0, "ports")
              ELSE IF ~SemanticDeepEqual(Ports(f0, "current"),
                                         Ports(f0, "expected"))
                   THEN AssignField(f0, "ports") ELSE f0
        f2 == IF ~SemanticDeepEqualMap(f1.obj["current"].selector,
                                       f1.obj["expected"].selector)
              THEN AssignField(f1, "selector") ELSE f1
        f3 == IF ~SemanticDeepEqual(f2.obj["current"].sessionAffinity,
                                    f2.obj["expected"].sessionAffinity)
              THEN AssignField(f2, "sessionAffinity") ELSE f2
        f4 == IF ~SemanticDeepEqual(f3.obj["current"].type,
                                    f3.obj["expected"].type)
              THEN AssignField(f3, "type") ELSE f3
    IN  Return(f4)

\* A loop that also carries the node port over.
AllPortFields == <<"name", "protocol", "port", "targetPort", "nodePort">>

\* A loop that forgets the target port.
PortFieldsWithoutTargetPort == <<"name", "protocol", "port">>

\* The port fields the loop of LoadBalancerServiceChanged compares, in order.
ComparedPortFields == <<"name", "protocol", "port", "targetPort">>

\* if !DeepEqual(p.X, expected.Spec.Ports[i].X) {
\*     updated.Spec.Ports[i].X = expected.Spec.Ports[i].X; changed = true }
PatchPortField(f, i, p, field) ==
    IF ~SemanticDeepEqual(p[field], Ports(f, "expected")[i][field])
    THEN [f EXCEPT !.arr[f.obj[f.updated].ports][i][field] =
                       Ports(f, "expected")[i][field],
                   !.changed = TRUE]
    ELSE f

\* The body of the loop for one port: the compared fields one after the other.
RECURSIVE PatchPort(_, _, _, _)
PatchPort(f, i, p, fields) ==
    IF fields = <<>> THEN f
    ELSE PatchPort(PatchPortField(f, i, p, Head(fields)), i, p, Tail(fields))

\* for i, p := range current.Spec.Ports { ... }: the length is taken once, p is
\* a copy of element i taken when its iteration starts.
RECURSIVE RangePorts(_, _, _)
RangePorts(f, i, n) ==
    IF i > n THEN f
    ELSE RangePorts(PatchPort(f, i, Ports(f, "current")[i], ComparedPortFields),
                    i + 1, n)

\* LoadBalancerServiceChanged(current, expected)
LoadBalancerServiceChanged(m) ==
    LET f0 == DeepCopyService(m)
        f1 == IF Len(Ports(f0, "current")) # Len(Ports(f0, "expected"))
              THEN AssignField(f0, "ports")
              ELSE RangePorts(f0, 1, Len(Ports(f0, "current")))
        f2 == IF ~SemanticDeepEqualMap(f1.obj["current"].selector,
                                       f1.obj["expected"].selector)
              THEN AssignField(f1, "selector") ELSE f1
        f3 == IF ~SemanticDeepEqual(f2.obj["current"].externalTrafficPolicy,
                                    f2.obj["expected"].externalTrafficPolicy)
              THEN AssignField(f2, "externalTrafficPolicy") ELSE f2
        f4 == IF ~SemanticDeepEqual(f3.obj["current"].sessionAffinity,
                                    f3.obj["expected"].sessionAffinity)
              THEN AssignField(f3, "sessionAffinity") ELSE f3
        f5 == IF ~SemanticDeepEqual(f4.obj["current"].type,
                                    f4.obj["expected"].type)
              THEN AssignField(f4, "type") ELSE f4
    IN  Return(f5)

---------------------------------------------------------------------------
(* The state machine: a caller holds a pair of snapshots, calls the function *)
(* of their kind, and, when told of a change, applies `updated` and calls    *)
(* again with the same expected snapshot.                                    *)

NoResult == [updated |-> NilPtr, changed |-> FALSE]

Init ==
    /\ kind \in Kinds
    /\ \E c \in Currents(kind) : \E e \in Expecteds(kind, c) :
          args = [current |-> c, expected |-> e]
    /\ mem = Alloc(args)
    /\ pc = "ready"
    /\ ret = NoResult
    /\ applied = FALSE

\* The call returns: the heap as the function left it, and its two results.
Returned(r) ==
    /\ mem' = r.mem
    /\ ret' = r.ret
    /\ pc' = "returned"
    /\ UNCHANGED <<kind, args, applied>>

CallDaemonset ==
    /\ pc = "ready" /\ kind = "DaemonSet"
    /\ Returned(DaemonsetConfigChanged(mem))

CallJob ==
    /\ pc = "ready" /\ kind = "Job"
    /\ Returned(JobConfigChanged(mem))

CallDeployment ==
    /\ pc = "ready" /\ kind = "Deployment"
    /\ Returned(DeploymentConfigChanged(mem))

CallClusterIp ==
    /\ pc = "ready" /\ kind = "ClusterIP"
    /\ Returned(ClusterIpServiceChanged(mem))

CallLoadBalancer ==
    /\ pc = "ready" /\ kind = "LoadBalancer"
    /\ Returned(LoadBalancerServiceChanged(mem))

\* The reconcile loop applies `updated`: it becomes the observed snapshot of
\* the next call, expected staying what it was.
Apply ==
    /\ pc = "returned" /\ ret.changed
    /\ args' = [current |-> View(mem, ret.updated), expected |-> args.expected]
    /\ mem' = Alloc(args')
    /\ pc' = "ready"
    /\ ret' = NoResult
    /\ applied' = TRUE
    /\ UNCHANGED kind

Next ==
    \/ CallDaemonset
    \/ CallJob
    \/ CallDeployment
    \/ CallClusterIp
    \/ CallLoadBalancer
    \/ Apply

Spec == Init /\ [][Next]_vars

---------------------------------------------------------------------------
(* Properties.  Cur and Exp are the snapshots as they were passed to the call *)
(* that has returned, Upd is the snapshot the returned pointer leads to.      *)

Called == pc = "returned"
Cur == args.current
Exp == args.expected
Upd == View(mem, ret.updated)

Workloads == {"DaemonSet", "Deployment"}
Services == {"ClusterIP", "LoadBalancer"}

\* Template labels that are there and do not hold the owning-contour key.
MarkerStripped(labels) ==
    /\ ~labels.isNil
    /\ \A e \in labels.kv : e[1] # OwningContourLabel

MarkerPresent(labels) == \E e \in labels.kv : e[1] = OwningContourLabel

MapsDiffer(a, b) == a.kv # b.kv

\* C1 (as stated): called with expected field-for-field equal to current, each of
\* the five functions returns changed = false and a nil updated.
C1_Idempotence ==
    (Called /\ Cur = Exp) => (~ret.changed /\ ret.updated = NilPtr)

\* C1 (amended): called with expected field-for-field equal to current, each of
\* the five functions returns changed = false and a nil updated, provided that
\* for a Job the template labels are nil or hold the owning-contour key.
C1_IdempotenceUnlessMarkerStripped ==
    (/\ Called
     /\ Cur = Exp
     /\ kind = "Job" => ~MarkerStripped(Cur.templateLabels))
        => (~ret.changed /\ ret.updated = NilPtr)

C1_Witness ==
    /\ Called /\ ~applied
    /\ kind = "Job"
    /\ Cur = Exp
    /\ Cur.templateLabels.isNil
    /\ ~ret.changed

\* The top-level fields of each kind that its function does not compare.
NotCompared(k) ==
    CASE k \in Workloads -> {"annotations", "status"}
      [] k = "Job" -> {"annotations", "completions"}
      [] k = "ClusterIP" -> {"annotations", "clusterIP", "externalTrafficPolicy",
                             "healthCheckNodePort"}
      [] k = "LoadBalancer" -> {"annotations", "clusterIP", "healthCheckNodePort"}

CommonPorts == DOMAIN Upd.ports \cap DOMAIN Cur.ports

\* C3: for the two Service functions, whenever changed = true, the cluster IP,
\* the health-check node port and every port's node port in updated are those
\* of current, also when expected has another number of ports.
C3_SystemAssignedKept ==
    (Called /\ ret.changed /\ kind \in Services) =>
        /\ Upd.clusterIP = Cur.clusterIP
        /\ Upd.healthCheckNodePort = Cur.healthCheckNodePort
        /\ \A i \in CommonPorts : Upd.ports[i].nodePort = Cur.ports[i].nodePort

SamePortCount == Len(Cur.ports) = Len(Exp.ports)

PortsDifferIn(field) ==
    \E i \in DOMAIN Cur.ports : Cur.ports[i][field] # Exp.ports[i][field]

\* The compared fields of the Job other than the template labels.
JobFieldsDiffer ==
    \/ MapsDiffer(Cur.labels, Exp.labels)
    \/ Cur.parallelism # Exp.parallelism
    \/ Cur.backoffLimit # Exp.backoffLimit
    \/ Cur.templateSpec # Exp.templateSpec

\* current and expected differ in a compared field of their kind.
FieldsDiffer ==
    CASE kind \in Workloads ->
            MapsDiffer(Cur.labels, Exp.labels) \/ Cur.spec # Exp.spec
      [] kind = "Job" -> JobFieldsDiffer
      [] kind = "ClusterIP" ->
            \/ Cur.ports # Exp.ports
            \/ MapsDiffer(Cur.selector, Exp.selector)
            \/ Cur.sessionAffinity # Exp.sessionAffinity
            \/ Cur.type # Exp.type
      [] kind = "LoadBalancer" ->
            \/ ~SamePortCount
            \/ SamePortCount /\ \E fld \in {"name", "protocol", "port", "targetPort"} :
                                    PortsDifferIn(fld)
            \/ MapsDiffer(Cur.selector, Exp.selector)
            \/ Cur.externalTrafficPolicy # Exp.externalTrafficPolicy
            \/ Cur.sessionAffinity # Exp.sessionAffinity
            \/ Cur.type # Exp.type

\* C4 (as stated): if current and expected differ in a compared field of their
\* kind, for a Job the presence of the owning-contour key in the template labels
\* among them, the function returns changed = true.
C4_Detection ==
    (/\ Called
     /\ \/ FieldsDiffer
        \/ /\ kind = "Job"
           /\ MarkerPresent(Cur.templateLabels) # MarkerPresent(Exp.templateLabels))
        => ret.changed

\* C4 (amended): if current and expected differ in a compared field of their
\* kind, the function returns changed = true, where for a Job the template labels
\* count as differing exactly when current's are non-nil and lack the
\* owning-contour key (expected's template labels are never read).
C4_DetectionOfStrippedMarker ==
    (/\ Called
     /\ \/ FieldsDiffer
        \/ /\ kind = "Job"
           /\ MarkerStripped(Cur.templateLabels))
        => ret.changed

C4_Witness ==
    /\ Called /\ ret.changed
    /\ kind = "LoadBalancer"
    /\ SamePortCount
    /\ PortsDifferIn("targetPort")
    /\ Cur = [Exp EXCEPT !.ports = Cur.ports]
    /\ \A fld \in {"name", "protocol", "port", "nodePort"} : ~PortsDifferIn(fld)

\* A Service without what the cluster assigns to a load balancer.
WithoutNodePorts(s) ==
    [s EXCEPT !.healthCheckNodePort = 0,
              !.ports = [i \in DOMAIN s.ports |-> [s.ports[i] EXCEPT !.nodePort = 0]]]

\* current and expected differ, and only in an excluded field of their kind.
OnlyExcludedDiffer ==
    /\ Cur # Exp
    /\ CASE kind = "Job" -> [Cur EXCEPT !.completions = Exp.completions] = Exp
         [] kind = "ClusterIP" -> [Cur EXCEPT !.clusterIP = Exp.clusterIP] = Exp
         [] kind = "LoadBalancer" -> WithoutNodePorts(Cur) = WithoutNodePorts(Exp)
         [] OTHER -> FALSE

\* C5 (as stated): if current and expected are equal in every field but an
\* excluded one, the function returns changed = false.
C5_ExclusionStability == (Called /\ OnlyExcludedDiffer) => ~ret.changed

\* C5 (amended): if current and expected are equal in every field but an
\* excluded one, the function returns changed = false, provided that for a Job
\* the template labels are nil or hold the owning-contour key.
C5_ExclusionStabilityUnlessMarkerStripped ==
    (/\ Called
     /\ OnlyExcludedDiffer
     /\ kind = "Job" => ~MarkerStripped(Cur.templateLabels))
        => ~ret.changed

C5_Witness ==
    /\ Called /\ ~ret.changed
    /\ kind = "LoadBalancer"
    /\ OnlyExcludedDiffer
    /\ PortsDifferIn("nodePort")

\* The compared fields of a load balancer other than port i's target port agree
\* (the fields that are not compared, node ports among them, are free to differ).
OnlyTargetPortDiffers(i) ==
    /\ SamePortCount
    /\ i \in DOMAIN Cur.ports
    /\ Cur.ports[i].targetPort # Exp.ports[i].targetPort
    /\ \A j \in DOMAIN Cur.ports :
          /\ j # i => Cur.ports[j].targetPort = Exp.ports[j].targetPort
          /\ \A fld \in {"name", "protocol", "port"} :
                Cur.ports[j][fld] = Exp.ports[j][fld]
    /\ ~MapsDiffer(Cur.selector, Exp.selector)
    /\ Cur.externalTrafficPolicy = Exp.externalTrafficPolicy
    /\ Cur.sessionAffinity = Exp.sessionAffinity
    /\ Cur.type = Exp.type

\* C6: in LoadBalancerServiceChanged, when the port counts agree and only the
\* target port of port i differs, changed = true and updated's ports are
\* current's with port i's target port taken from expected: every name,
\* protocol, port number and node port is current's.
C6_PerPortPatch ==
    (Called /\ kind = "LoadBalancer") =>
        \A i \in DOMAIN Cur.ports :
            OnlyTargetPortDiffers(i) =>
                /\ ret.changed
                /\ Upd.ports =
                      [Cur.ports EXCEPT ![i].targetPort = Exp.ports[i].targetPort]

C6_Witness ==
    /\ Called /\ ret.changed
    /\ kind = "LoadBalancer"
    /\ Len(Cur.ports) = 2
    /\ OnlyTargetPortDiffers(2)
    /\ Cur.ports[2].nodePort # Exp.ports[2].nodePort
    /\ Upd.ports[2].nodePort = Cur.ports[2].nodePort

\* C7: in JobConfigChanged, whenever current's template labels are non-nil and
\* lack the owning-contour key, changed = true and updated is expected in every
\* field, whatever the other compared fields are.
C7_JobMarkerRule ==
    (Called /\ kind = "Job" /\ MarkerStripped(Cur.templateLabels)) =>
        /\ ret.changed
        /\ ret.updated # NilPtr
        /\ Upd = Exp

C7_Witness ==
    /\ Called /\ ret.changed
    /\ kind = "Job"
    /\ MarkerStripped(Cur.templateLabels)
    /\ ~JobFieldsDiffer
    /\ Cur.completions # Exp.completions
    /\ Upd.completions = Exp.completions

\* C8: after the call has returned, the current snapshot and the expected
\* snapshot are field for field what they were when passed.
C8_InputsNotMutated ==
    Called => (View(mem, "current") = Cur /\ View(mem, "expected") = Exp)

C8_Witness ==
    /\ Called /\ ret.changed
    /\ kind = "LoadBalancer"
    /\ ret.updated = "copy"
    /\ mem.obj["copy"].ports = "copy"
    /\ mem.arr["copy"] # mem.arr["current"]
    /\ View(mem, "current") = Cur

\* C9: the returned updated is nil exactly when changed = false, and when
\* changed = true it leads to a full snapshot of the kind of the inputs.
C9_ResultShape ==
    Called =>
        /\ ret.updated = NilPtr <=> ~ret.changed
        /\ ret.changed =>
              /\ ret.updated \in DOMAIN mem.obj
              /\ DOMAIN Upd = DOMAIN Cur

C9_Witness ==
    /\ Called /\ ~ret.changed
    /\ kind = "ClusterIP"
    /\ Cur.clusterIP # Exp.clusterIP
    /\ ret.updated = NilPtr

\* C10 (as stated): for every kind and every pair of inputs, once the caller has
\* applied updated, a second call with the same expected returns changed = false.
C10_Convergence == (Called /\ applied) => ~ret.changed

\* C10 (amended): once the caller has applied updated, a second call with the
\* same expected returns changed = false, provided that for a Job expected's
\* template labels are nil or hold the owning-contour key.
C10_ConvergenceUnlessMarkerStripped ==
    (/\ Called /\ applied
     /\ kind = "Job" => ~MarkerStripped(Exp.templateLabels))
        => ~ret.changed

C10_Witness ==
    /\ Called /\ applied
    /\ kind = "LoadBalancer"
    /\ Cur.clusterIP # Exp.clusterIP
    /\ Cur.ports = Exp.ports
    /\ ~ret.changed

====
